---- MODULE Spec2Model ----
(***************************************************************************)
(* Dataset Visualizer: the React front end (App, api) and the dataset      *)
(* resolution / query execution layer it talks to.                         *)
(*                                                                         *)
(* Strings are sequences of one-character strings, so that                 *)
(* encodeURIComponent and String.includes are computed, not assumed.  A    *)
(* URL is a sequence of tokens: a literal piece ("/datasets/", "?split=",  *)
(* "root=", "?", "&"), an unreserved character, or a percent escape.       *)
(* JavaScript null / undefined is None (the empty tuple) and a present     *)
(* value v is Some(v); a null string is the empty string, which the code   *)
(* never tells apart from null (both are falsy).                           *)
(***************************************************************************)
EXTENDS Integers, Sequences, FiniteSets, TLC

None == << >>
Some(v) == << v >>
IsSome(o) == Len(o) = 1
Get(o) == o[1]

RECURSIVE Flatten(_)
Flatten(ss) == IF ss = << >> THEN << >> ELSE Head(ss) \o Flatten(Tail(ss))

Range(s) == { s[i] : i \in 1..Len(s) }

Min(a, b) == IF a < b THEN a ELSE b
Max(a, b) == IF a > b THEN a ELSE b

(***************************************************************************)
(* Bounds of the model.                                                    *)
(***************************************************************************)
\* at most this many requests in flight when a user action is taken
MaxInflight == 2
\* the user stops acting once querySeq has reached this value
MaxSeq == 3
\* the Count rows button is pressed at most this many times
MaxCounts == 1
\* QUERY_DEFAULT_LIMIT and QUERY_MAX_LIMIT of the modelled deployment (the
\* backend reads both from the environment; 1 <= DEFAULT_LIMIT <= MAX_LIMIT)
DEFAULT_LIMIT == 2
MAX_LIMIT == 4

(***************************************************************************)
(* Program constants.                                                      *)
(***************************************************************************)
\* useState<number>(500)
InitialLimit == 500

\* "SELECT * FROM t;" as statement tokens (the terminator is not a token)
DEFAULT_SQL == << "SELECT", "*", "FROM", "t" >>

(***************************************************************************)
(* api.ts: withRoot and the five request builders.                         *)
(***************************************************************************)
\* encodeURIComponent on one character
EncodeChar(c) ==
  CASE c = " " -> << "%20" >>
    [] c = "?" -> << "%3F" >>
    [] c = "/" -> << "%2F" >>
    [] c = "&" -> << "%26" >>
    [] OTHER   -> << c >>

encodeURIComponent(s) == Flatten([ i \in 1..Len(s) |-> EncodeChar(s[i]) ])

\* path.includes("?")
Includes(path, c) == \E i \in 1..Len(path) : path[i] = c

withRoot(path, root) ==
  IF root # << >>
    THEN path \o << (IF Includes(path, "?") THEN "&" ELSE "?"), "root=" >>
              \o encodeURIComponent(root)
    ELSE path

SplitQuery(split) ==
  IF split # << >> THEN << "?", "split=" >> \o encodeURIComponent(split) ELSE << >>

listDatasetsUrl(root) == withRoot(<< "/datasets" >>, root)

listSplitsUrl(dataset, root) ==
  withRoot(<< "/datasets/" >> \o encodeURIComponent(dataset) \o << "/splits" >>, root)

schemaUrl(dataset, root, split) ==
  withRoot(<< "/datasets/" >> \o encodeURIComponent(dataset) \o << "/schema" >>
             \o SplitQuery(split), root)

countUrl(dataset, root, split) ==
  withRoot(<< "/datasets/" >> \o encodeURIComponent(dataset) \o << "/count" >>
             \o SplitQuery(split), root)

queryUrl(dataset, root) ==
  withRoot(<< "/datasets/" >> \o encodeURIComponent(dataset) \o << "/query" >>, root)

(***************************************************************************)
(* The files on disk.  A root maps to its immediate entries; an entry has  *)
(* a manifest at its top ("valid", "corrupt" or "absent"), split           *)
(* subdirectories that may each hold a manifest, and loose files.  A shard *)
(* is the sequence of its rows; a row is its id.  Row ids are distinct     *)
(* over the whole disk.                                                    *)
(***************************************************************************)
Shard(first, n) == [ i \in 1..n |-> first + i - 1 ]

RootA == << "/", "a" >>
RootB == << "/", "b" >>
BlankRoot == << " " >>

Columns == << [name |-> "id", dtype |-> "int64"] >>

DiskA ==
  << [name |-> << "y", "?" >>, manifest |-> "absent", subdirs |-> << >>,
      files |-> << [ext |-> "parquet", rows |-> Shard(21, 2)],
                   [ext |-> "txt", rows |-> << >>],
                   [ext |-> "arrow", rows |-> Shard(23, 1)] >>],
     [name |-> << "j" >>, manifest |-> "absent", subdirs |-> << >>,
      files |-> << [ext |-> "txt", rows |-> << >>] >>],
     [name |-> << "x" >>, manifest |-> "valid",
      subdirs |-> << [name |-> << "s" >>, manifest |-> "absent", approx |-> Some(7),
                      shards |-> << Shard(11, 4), Shard(15, 3) >>],
                     [name |-> << "t" >>, manifest |-> "absent", approx |-> Some(0),
                      shards |-> << Shard(0, 0) >>] >>,
      files |-> << >>],
     [name |-> << "b" >>, manifest |-> "corrupt", subdirs |-> << >>,
      files |-> << [ext |-> "parquet", rows |-> Shard(41, 1)] >>] >>

DiskB ==
  << [name |-> << "x" >>, manifest |-> "absent",
      subdirs |-> << [name |-> << "s" >>, manifest |-> "valid", approx |-> Some(3),
                      shards |-> << Shard(31, 2) >> ] >>,
      files |-> << >>] >>

\* the roots that exist on disk; every other path is not a directory
DiskRoots == { RootA, RootB }
Disk(root) == IF root = RootA THEN DiskA ELSE DiskB

(***************************************************************************)
(* Backend, section 4.1: Format Detector.                                  *)
(***************************************************************************)
Qualifying(file) == file.ext \in { "parquet", "arrow" }

\* only the .parquet files of an entry
ParquetFiles(entry) == SelectSeq(entry.files, LAMBDA f : f.ext = "parquet")

LooseFiles(entry) == SelectSeq(entry.files, Qualifying)

HasManifest(sub) == sub.manifest # "absent"
CorruptSub(sub) == sub.manifest = "corrupt"

DetectFormat(entry) ==
  IF entry.manifest = "corrupt" THEN [format |-> "CorruptManifest", splits |-> << >>]
  ELSE IF entry.manifest = "valid"
    THEN [format |-> "structured-library-export",
          splits |-> [ i \in 1..Len(entry.subdirs) |->
                         [name |-> entry.subdirs[i].name,
                          shards |-> entry.subdirs[i].shards,
                          approx |-> entry.subdirs[i].approx] ]]
  ELSE IF SelectSeq(entry.subdirs, HasManifest) # << >>
    THEN IF SelectSeq(entry.subdirs, CorruptSub) # << >>
           THEN [format |-> "CorruptManifest", splits |-> << >>]
           ELSE LET subs == SelectSeq(entry.subdirs, HasManifest)
                IN  [format |-> "structured-library-export",
                     splits |-> [ i \in 1..Len(subs) |->
                                    [name |-> subs[i].name,
                                     shards |-> subs[i].shards,
                                     approx |-> subs[i].approx] ]]
  ELSE IF LooseFiles(entry) # << >>
    THEN [format |-> "loose-columnar",
          splits |-> << [name |-> << "d", "e", "f", "a", "u", "l", "t" >>,
                         shards |-> [ i \in 1..Len(LooseFiles(entry)) |->
                                        LooseFiles(entry)[i].rows ],
                         approx |-> None] >>]
  ELSE [format |-> "UnrecognizedFormat", splits |-> << >>]

Detected(entry) ==
  DetectFormat(entry).format \in { "structured-library-export", "loose-columnar" }

(***************************************************************************)
(* Backend, section 4.2: Dataset Catalog.                                  *)
(***************************************************************************)
CharRank(c) ==
  CASE c = " " -> 0 [] c = "&" -> 1 [] c = "/" -> 2 [] c = "?" -> 3
    [] c = "a" -> 4 [] c = "b" -> 5 [] c = "j" -> 6 [] c = "s" -> 7
    [] c = "t" -> 8 [] c = "x" -> 9 [] c = "y" -> 10 [] OTHER -> 11

RECURSIVE LexLess(_, _)
LexLess(a, b) ==
  IF a = << >> THEN b # << >>
  ELSE IF b = << >> THEN FALSE
  ELSE IF Head(a) = Head(b) THEN LexLess(Tail(a), Tail(b))
  ELSE CharRank(Head(a)) < CharRank(Head(b))

RECURSIVE SortNames(_)
SortNames(names) ==
  IF names = { } THEN << >>
  ELSE LET least == CHOOSE n \in names : \A m \in names \ { n } : LexLess(n, m)
       IN  << least >> \o SortNames(names \ { least })

(***************************************************************************)
(* JSON.  A value is a string, another scalar (a number, null, true or     *)
(* false, kept as its token), an array of values or an object, which is a  *)
(* sequence of members [k, v].  A text is a sequence of tokens.            *)
(***************************************************************************)
JStr(s) == [t |-> "string", s |-> s, items |-> << >>]
JScalar(tok) == [t |-> "scalar", s |-> << tok >>, items |-> << >>]
JArr(items) == [t |-> "array", s |-> << >>, items |-> items]
JObj(members) == [t |-> "object", s |-> << >>, items |-> members]

RECURSIVE Stringify(_)
\* JSON.stringify: the compact text of a value
Stringify(v) ==
  LET RECURSIVE all(_, _)
      all(items, i) ==
        IF i > Len(items) THEN << >>
        ELSE (IF i > 1 THEN << "," >> ELSE << >>)
               \o (IF v.t = "object"
                     THEN << "\"", items[i].k, "\"", ":" >> \o Stringify(items[i].v)
                     ELSE Stringify(items[i]))
               \o all(items, i + 1)
  IN  CASE v.t = "string" -> << "\"" >> \o v.s \o << "\"" >>
        [] v.t = "scalar" -> v.s
        [] v.t = "array"  -> << "[" >> \o all(v.items, 1) \o << "]" >>
        [] v.t = "object" -> << "{" >> \o all(v.items, 1) \o << "}" >>

\* the error names the backend puts in a detail
ServerDetails ==
  { "RootNotFound", "DatasetNotFound", "SplitNotFound", "EmptyQuery", "SyntaxError",
    "CorruptManifest", "UnrecognizedFormat", "Not Found", "root is required" }

\* the JSON values of the model
JsonScalars ==
  { JStr(<< "boom" >>), JStr(<< >>), JScalar("42"), JScalar("0"), JScalar("null"),
    JScalar("true"), JScalar("false") }
JsonArrays ==
  { JArr(<< >>), JArr(<< JStr(<< "boom" >>) >>),
    JArr(<< JObj(<< [k |-> "msg", v |-> JStr(<< "field required" >>)] >>) >>) }
JsonDetails ==
  JsonScalars \cup JsonArrays
    \cup { JObj(<< [k |-> "msg", v |-> JStr(<< "boom" >>)] >>) }
    \cup { JStr(<< d >>) : d \in ServerDetails }
JsonObjects ==
  { JObj(<< >>), JObj(<< [k |-> "error", v |-> JStr(<< "boom" >>)] >>),
    JObj(<< [k |-> "detail", v |-> JStr(<< "boom" >>)], [k |-> "code", v |-> JScalar("42")] >>),
    JObj(<< [k |-> "code", v |-> JScalar("42")], [k |-> "detail", v |-> JScalar("null")] >>) }
    \cup { JObj(<< [k |-> "detail", v |-> d] >>) : d \in JsonDetails }
JsonValues == JsonDetails \cup JsonObjects

\* the text of every value of the model
JsonTexts == [ v \in JsonValues |-> Stringify(v) ]

\* JSON.parse: the value whose text this is, or a SyntaxError
JSONparse(text) ==
  IF \E v \in JsonValues : JsonTexts[v] = text
    THEN [ok |-> TRUE, value |-> CHOOSE v \in JsonValues : JsonTexts[v] = text]
    ELSE [ok |-> FALSE, value |-> JScalar("null")]

Ok(body) == [ok |-> TRUE, status |-> 200, body |-> body]
StatusText(status) ==
  CASE status = 400 -> "Bad Request" [] status = 404 -> "Not Found"
    [] status = 422 -> "Unprocessable Entity" [] status = 500 -> "Internal Server Error"
    [] OTHER -> "Error"

\* an error response: the body is the JSON object {"detail": "<detail>"}
Fail(status, detail) ==
  [ok |-> FALSE, status |-> status,
   body |-> [text |-> Stringify(JObj(<< [k |-> "detail", v |-> JStr(<< detail >>)] >>)),
             detail |-> << detail >>,
             statusText |-> StatusText(status)]]

\* a catalog that gives up at the first entry that fails detection
listDatasetsFailFast(root) ==
  IF root \notin DiskRoots THEN Fail(404, "RootNotFound")
  ELSE IF \E i \in 1..Len(Disk(root)) : ~ Detected(Disk(root)[i])
    THEN Fail(400, (CHOOSE f \in { DetectFormat(Disk(root)[i]).format : i \in 1..Len(Disk(root)) } :
                      f \in { "CorruptManifest", "UnrecognizedFormat" }))
  ELSE Ok([datasets |-> SortNames({ Disk(root)[i].name : i \in 1..Len(Disk(root)) })])

listDatasets(root) ==
  IF root \notin DiskRoots THEN Fail(404, "RootNotFound")
  ELSE LET entries == SelectSeq(Disk(root), Detected)
       IN  Ok([datasets |-> SortNames({ entries[i].name : i \in 1..Len(entries) })])

(***************************************************************************)
(* Backend, sections 4.3 and 4.4: Split Resolver and Table Binder.         *)
(***************************************************************************)
FindEntry(root, name) ==
  LET hits == SelectSeq(Disk(root), LAMBDA e : e.name = name /\ Detected(e))
  IN  IF hits = << >> THEN None ELSE Some(hits[1])

listSplits(root, datasetName) ==
  IF root \notin DiskRoots THEN Fail(404, "RootNotFound")
  ELSE IF FindEntry(root, datasetName) = None THEN Fail(404, "DatasetNotFound")
  ELSE LET splits == DetectFormat(Get(FindEntry(root, datasetName))).splits
       IN  Ok([splits |-> [ i \in 1..Len(splits) |-> splits[i].name ]])

\* the relation of a split, or the error that binding it raises; a request
\* that names no split binds the first one
bind(root, datasetName, splitName) ==
  IF root \notin DiskRoots THEN Fail(404, "RootNotFound")
  ELSE IF FindEntry(root, datasetName) = None THEN Fail(404, "DatasetNotFound")
  ELSE LET splits == DetectFormat(Get(FindEntry(root, datasetName))).splits
           hits == IF splitName = << >> THEN splits
                   ELSE SelectSeq(splits, LAMBDA sp : sp.name = splitName)
       IN  IF hits = << >> THEN Fail(404, "SplitNotFound")
           ELSE Ok([columns |-> Columns,
                    rows |-> Flatten(hits[1].shards),
                    approx |-> hits[1].approx])

(***************************************************************************)
(* Backend, section 4.5: Query Executor.  A statement is a sequence of     *)
(* tokens; the engine understands SELECT * FROM t [LIMIT n] [OFFSET m].    *)
(***************************************************************************)
Whitespace == { " ", "\n", "\t" }

\* a check that rejects only the empty text
IsEmptyText(sql) == sql = << >>

IsBlank(sql) == \A i \in 1..Len(sql) : sql[i] \in Whitespace

Upper(tok) ==
  CASE tok = "select" -> "SELECT" [] tok = "from" -> "FROM"
    [] tok = "limit" -> "LIMIT" [] tok = "offset" -> "OFFSET"
    [] OTHER -> tok

Digits == << "0", "1", "2", "3", "4", "5", "6", "7", "8", "9" >>
IsNumber(tok) == tok \in Range(Digits)
ParseInt(tok) == (CHOOSE i \in 1..Len(Digits) : Digits[i] = tok) - 1

RECURSIVE ToTokens(_)
\* decimal rendering of a natural number, one token per digit
ToTokens(n) ==
  IF n < 10 THEN << Digits[n + 1] >> ELSE ToTokens(n \div 10) \o << Digits[(n % 10) + 1] >>

RECURSIVE ParseNumber(_)
ParseNumber(toks) ==
  IF toks = << >> THEN 0
  ELSE 10 * ParseNumber(SubSeq(toks, 1, Len(toks) - 1)) + ParseInt(toks[Len(toks)])

\* a limit with a ceiling and no floor
EffectiveLimitNoFloor(limitOverride) ==
  IF limitOverride # << >> THEN (IF limitOverride[1] > MAX_LIMIT THEN MAX_LIMIT ELSE limitOverride[1])
  ELSE DEFAULT_LIMIT

\* step 2: the effective limit
EffectiveLimit(limitOverride) ==
  IF IsSome(limitOverride) THEN Max(1, Min(MAX_LIMIT, Get(limitOverride)))
  ELSE DEFAULT_LIMIT

\* step 3: keyword scan, case-insensitive
HasLimitOrOffset(sql) ==
  \E i \in 1..Len(sql) : Upper(sql[i]) \in { "LIMIT", "OFFSET" }

\* step 3 without the extra row: the limit appended is the effective limit
AugmentExactLimit(sql, effective, offsetOverride) ==
  (IF HasLimitOrOffset(sql) THEN sql ELSE sql \o << "LIMIT" >> \o ToTokens(effective))
    \o (IF offsetOverride # << >> /\ offsetOverride[1] > 0
          THEN << "OFFSET" >> \o ToTokens(offsetOverride[1]) ELSE << >>)

\* step 3 with the offset counted in pages instead of rows
AugmentPageOffset(sql, effective, offsetOverride) ==
  (IF HasLimitOrOffset(sql) THEN sql ELSE sql \o << "LIMIT" >> \o ToTokens(effective + 1))
    \o (IF offsetOverride # << >> /\ offsetOverride[1] > 0
          THEN << "OFFSET" >> \o ToTokens(offsetOverride[1] + 1) ELSE << >>)

\* step 3: the statement that is executed.  The limit appended is the fetch
\* bound of step 5, effective_limit + 1: with a smaller one the extra row that
\* signals truncation could never be fetched.
Augment(sql, effective, offsetOverride) ==
  (IF HasLimitOrOffset(sql) THEN sql ELSE sql \o << "LIMIT" >> \o ToTokens(effective + 1))
    \o (IF IsSome(offsetOverride) /\ Get(offsetOverride) > 0
          THEN << "OFFSET" >> \o ToTokens(Get(offsetOverride)) ELSE << >>)

\* the number that follows keyword kw in stmt from position i on
NumberAt(stmt, i) ==
  LET stop == IF \E j \in i..Len(stmt) : ~ IsNumber(stmt[j])
                THEN (CHOOSE j \in i..Len(stmt) :
                        /\ ~ IsNumber(stmt[j])
                        /\ \A k \in i..(j - 1) : IsNumber(stmt[k])) - 1
                ELSE Len(stmt)
  IN  [value |-> ParseNumber(SubSeq(stmt, i, stop)), next |-> stop + 1, found |-> stop >= i]

\* step 4: the engine.  Yields the rows of the statement, or a syntax error.
Execute(stmt, rows) ==
  LET up == [ i \in 1..Len(stmt) |-> Upper(stmt[i]) ]
      n == Len(up)
      head == n >= 4 /\ SubSeq(up, 1, 4) = << "SELECT", "*", "FROM", "t" >>
      hasLimit == n >= 5 /\ up[5] = "LIMIT"
      lim == IF hasLimit THEN NumberAt(up, 6) ELSE [value |-> Len(rows), next |-> 5, found |-> TRUE]
      hasOffset == lim.next <= n /\ up[lim.next] = "OFFSET"
      off == IF hasOffset THEN NumberAt(up, lim.next + 1)
             ELSE [value |-> 0, next |-> lim.next, found |-> TRUE]
  IN  IF head /\ lim.found /\ off.found /\ off.next = n + 1
        THEN [ok |-> TRUE,
              rows |-> SubSeq(rows, off.value + 1, Min(Len(rows), off.value + lim.value))]
        ELSE [ok |-> FALSE, rows |-> << >>]

\* the columnar transport shape: one sequence of values per column
Columnar(columns, rows) == [ c \in 1..Len(columns) |-> rows ]

\* run(relation, sql, limitOverride, offsetOverride); `executed` and
\* `yielded` record what step 4 ran and how many rows it produced
run(relation, sql, limitOverride, offsetOverride) ==
  IF IsBlank(sql)
    THEN [ok |-> FALSE, status |-> 400, body |-> Fail(400, "EmptyQuery").body,
          executed |-> None, yielded |-> 0]
  ELSE
    LET effective == EffectiveLimit(limitOverride)
        stmt == Augment(sql, effective, offsetOverride)
        out == Execute(stmt, relation.rows)
        fetched == SubSeq(out.rows, 1, Min(Len(out.rows), effective + 1))
        truncated == Len(fetched) = effective + 1
        kept == IF truncated THEN SubSeq(fetched, 1, effective) ELSE fetched
    IN  IF ~ out.ok
          THEN [ok |-> FALSE, status |-> 400, body |-> Fail(400, "SyntaxError").body,
                executed |-> Some(stmt), yielded |-> 0]
          ELSE [ok |-> TRUE, status |-> 200,
                body |-> [columns |-> [ i \in 1..Len(relation.columns) |->
                                          relation.columns[i].name ],
                          data |-> Columnar(relation.columns, kept),
                          row_count |-> Len(kept),
                          truncated |-> truncated],
                executed |-> Some(stmt), yielded |-> Len(out.rows)]

(***************************************************************************)
(* Backend, section 4.6: Count/Schema Service.                             *)
(***************************************************************************)
schema(relation) == Ok([columns |-> relation.columns, approx_rows |-> relation.approx])

count(relation) == Ok([rows |-> Len(relation.rows)])

(***************************************************************************)
(* Backend, section 6: the request surface.  The server reads the dataset  *)
(* name from the path and `root` / `split` from the query string.          *)
(***************************************************************************)
DecodeToken(tok) ==
  CASE tok = "%20" -> " " [] tok = "%3F" -> "?" [] tok = "%2F" -> "/"
    [] tok = "%26" -> "&" [] OTHER -> tok

Decode(toks) == [ i \in 1..Len(toks) |-> DecodeToken(toks[i]) ]

\* the value of query parameter key, None when the URL has no such parameter
QueryParam(url, key) ==
  IF \E i \in 2..Len(url) : url[i] = key /\ url[i - 1] \in { "?", "&" }
    THEN LET i == CHOOSE i \in 2..Len(url) : url[i] = key /\ url[i - 1] \in { "?", "&" }
             stop == IF \E j \in (i + 1)..Len(url) : url[j] = "&"
                       THEN (CHOOSE j \in (i + 1)..Len(url) :
                               url[j] = "&" /\ \A k \in (i + 1)..(j - 1) : url[k] # "&") - 1
                       ELSE Len(url)
         IN  Some(Decode(SubSeq(url, i + 1, stop)))
    ELSE None

Operations == { "/splits", "/schema", "/count", "/query" }

\* the path of the URL: the operation and the dataset name it addresses
Route(url) ==
  LET stop == IF Includes(url, "?")
                THEN (CHOOSE j \in 1..Len(url) :
                        url[j] = "?" /\ \A k \in 1..(j - 1) : url[k] # "?") - 1
                ELSE Len(url)
      path == SubSeq(url, 1, stop)
  IN  IF path = << "/datasets" >> THEN [op |-> "/datasets", dataset |-> << >>]
      ELSE IF Len(path) >= 3 /\ path[1] = "/datasets/" /\ path[Len(path)] \in Operations
        THEN [op |-> path[Len(path)], dataset |-> Decode(SubSeq(path, 2, Len(path) - 1))]
      ELSE [op |-> "unknown", dataset |-> << >>]

\* the response to one request
Serve(req) ==
  LET route == Route(req.url)
      root == QueryParam(req.url, "root=")
      split == IF route.op = "/query" THEN req.body[1].split
               ELSE IF IsSome(QueryParam(req.url, "split=")) THEN Get(QueryParam(req.url, "split="))
               ELSE << >>
      bound == bind(Get(root), route.dataset, split)
      plain(r) == [ok |-> r.ok, status |-> r.status, body |-> r.body,
                   executed |-> None, yielded |-> 0]
  IN  IF route.op = "unknown" THEN plain(Fail(404, "Not Found"))
      ELSE IF root = None THEN plain(Fail(400, "root is required"))
      ELSE IF route.op = "/query" /\ IsBlank(req.body[1].sql)
        THEN plain(Fail(400, "EmptyQuery"))   \* validation: sql required non-empty
      ELSE IF route.op = "/datasets" THEN plain(listDatasets(Get(root)))
      ELSE IF route.op = "/splits" THEN plain(listSplits(Get(root), route.dataset))
      ELSE IF ~ bound.ok THEN plain(bound)
      ELSE IF route.op = "/schema" THEN plain(schema(bound.body))
      ELSE IF route.op = "/count" THEN plain(count(bound.body))
      ELSE run(bound.body, req.body[1].sql, req.body[1].limit, req.body[1].offset)

(***************************************************************************)
(* api.ts: json<T>, the request helper.  A response that is not ok throws  *)
(* an Error carrying one message string.                                   *)
(***************************************************************************)
\* "detail" in parsed, and parsed.detail
HasDetail(v) == v.t = "object" /\ \E i \in 1..Len(v.items) : v.items[i].k = "detail"
DetailOf(v) == v.items[CHOOSE i \in 1..Len(v.items) : v.items[i].k = "detail"].v

\* parsed && typeof parsed === "object": null is no object here, an array is
IsObject(v) == v.t \in { "object", "array" }

\* the helper without its try / catch: the SyntaxError of JSON.parse escapes
ErrorMessageUncaught(res) ==
  LET text == res.body.text
      message == IF text # << >> THEN text ELSE << res.body.statusText >>
      parsed == IF text # << >> THEN JSONparse(text)
                ELSE [ok |-> TRUE, value |-> JScalar("null")]
  IN  IF ~ parsed.ok THEN << "Unexpected token" >>
      ELSE IF IsObject(parsed.value) /\ HasDetail(parsed.value)
        THEN IF DetailOf(parsed.value).t = "string" THEN DetailOf(parsed.value).s
             ELSE Stringify(DetailOf(parsed.value))
      ELSE IF parsed.value.t = "string" THEN parsed.value.s
      ELSE message

\* lines 35-48: the message of the Error thrown for a response that is not ok
ErrorMessage(res) ==
  LET text == res.body.text
      message == IF text # << >> THEN text ELSE << res.body.statusText >>
      parsed == IF text # << >> THEN JSONparse(text)
                ELSE [ok |-> TRUE, value |-> JScalar("null")]
  IN  IF ~ parsed.ok THEN message
      ELSE IF IsObject(parsed.value) /\ HasDetail(parsed.value)
        THEN IF DetailOf(parsed.value).t = "string" THEN DetailOf(parsed.value).s
             ELSE Stringify(DetailOf(parsed.value))
      ELSE IF parsed.value.t = "string" THEN parsed.value.s
      ELSE message

\* the outcome the caller's promise settles with
json(res) ==
  IF res.ok THEN [threw |-> FALSE, value |-> res.body, message |-> << >>]
  ELSE [threw |-> TRUE, value |-> << >>, message |-> ErrorMessage(res)]

(***************************************************************************)
(* App: the component's state, refs and the requests in flight.            *)
(***************************************************************************)
VARIABLES
  datasets, datasetRoot, selectedDataset, splits, selectedSplit, schemaCols,
  sql, limit, offset, result, totalCount, loading, countLoading, error,
  autoRunPending,
  queryAbortRef, countAbortRef, querySeq, countSeq,
  net,       \* the requests in flight, each with the closure of its callbacks
  aborted,   \* the abort controllers of requests in flight that were aborted
  served,    \* the last request a direct client of the backend had served
  seen,      \* a response the direct client kept from an earlier request
  table,     \* the result table: its props and its scroll and viewport state
  cols       \* the result table: its columns, their data and its maxColumns state

vars == << datasets, datasetRoot, selectedDataset, splits, selectedSplit, schemaCols,
           sql, limit, offset, result, totalCount, loading, countLoading, error,
           autoRunPending, queryAbortRef, countAbortRef, querySeq, countSeq,
           net, aborted, served, seen, table, cols >>

\* the whole state as one record, so that handlers and effects are functions
Cur ==
  [datasets |-> datasets, datasetRoot |-> datasetRoot,
   selectedDataset |-> selectedDataset, splits |-> splits,
   selectedSplit |-> selectedSplit, schema |-> schemaCols, sql |-> sql,
   limit |-> limit, offset |-> offset, result |-> result,
   totalCount |-> totalCount, loading |-> loading, countLoading |-> countLoading,
   error |-> error, autoRunPending |-> autoRunPending,
   queryAbortRef |-> queryAbortRef, countAbortRef |-> countAbortRef,
   querySeq |-> querySeq, countSeq |-> countSeq,
   net |-> net, aborted |-> aborted]

Commit(S) ==
  /\ datasets' = S.datasets
  /\ datasetRoot' = S.datasetRoot
  /\ selectedDataset' = S.selectedDataset
  /\ splits' = S.splits
  /\ selectedSplit' = S.selectedSplit
  /\ schemaCols' = S.schema
  /\ sql' = S.sql
  /\ limit' = S.limit
  /\ offset' = S.offset
  /\ result' = S.result
  /\ totalCount' = S.totalCount
  /\ loading' = S.loading
  /\ countLoading' = S.countLoading
  /\ error' = S.error
  /\ autoRunPending' = S.autoRunPending
  /\ queryAbortRef' = S.queryAbortRef
  /\ countAbortRef' = S.countAbortRef
  /\ querySeq' = S.querySeq
  /\ countSeq' = S.countSeq
  /\ net' = S.net
  /\ aborted' = S.aborted

\* the useState values: a change of any of them renders the component again
Rendered(S) ==
  << S.datasets, S.datasetRoot, S.selectedDataset, S.splits, S.selectedSplit,
     S.schema, S.sql, S.limit, S.offset, S.result, S.totalCount, S.loading,
     S.countLoading, S.error, S.autoRunPending >>

\* fetch(): the request goes in flight.  `copy` tells apart requests that are
\* otherwise identical.
Issue(S, req) ==
  LET same == { q \in S.net : [q EXCEPT !.copy = 0] = req }
      sent == [req EXCEPT !.copy = Cardinality(same) + 1]
  IN  [S EXCEPT !.net = @ \cup { sent }]

Request(kind, url, body, signal, requestId, R) ==
  [kind |-> kind, url |-> url, body |-> body, signal |-> signal,
   requestId |-> requestId, copy |-> 0,
   at |-> [root |-> R.datasetRoot, dataset |-> R.selectedDataset,
           split |-> R.selectedSplit]]

IsAborted(S, ctrl) == \E a \in S.aborted : a.ctrl = ctrl

\* ref.current?.abort(); `by` records which code called abort()
Abort(S, ref, by) ==
  IF IsSome(ref) /\ ~ IsAborted(S, Get(ref)) /\ (\E q \in S.net : q.signal = ref)
    THEN [S EXCEPT !.aborted = @ \cup { [ctrl |-> Get(ref), by |-> by] }]
    ELSE S

(***************************************************************************)
(* App: runQuery and fetchCount up to their await.  R is the render whose  *)
(* closure the function reads state from; S is the state being built (the  *)
(* refs are read from S: they are not part of a render).                   *)
(***************************************************************************)
PickFirstMessage == << "Pick a dataset and dataset folder first." >>
ChooseRootMessage == << "Choose a dataset folder path first." >>

\* runQuery with one abort controller shared by queries and counts
runQuerySharedController(R, S, sqlOverride, offsetOverride) ==
  IF R.selectedDataset = << >> \/ R.datasetRoot = << >>
    THEN [S EXCEPT !.error = Some(PickFirstMessage)]
  ELSE
    LET sqlToUse == IF IsSome(sqlOverride) THEN Get(sqlOverride) ELSE R.sql
        offsetToUse == IF IsSome(offsetOverride) THEN Get(offsetOverride) ELSE R.offset
        requestId == S.querySeq + 1
        controller == [kind |-> "query", id |-> requestId]
        S1 == Abort(Abort(S, S.queryAbortRef, "runQuery"), S.countAbortRef, "runQuery")
        S2 == [S1 EXCEPT !.querySeq = requestId,
                         !.queryAbortRef = Some(controller),
                         !.loading = TRUE,
                         !.error = None]
    IN  Issue(S2, Request("query", queryUrl(R.selectedDataset, R.datasetRoot),
                          Some([sql |-> sqlToUse, split |-> R.selectedSplit,
                                limit |-> Some(R.limit), offset |-> Some(offsetToUse)]),
                          Some(controller), requestId, R))

runQuery(R, S, sqlOverride, offsetOverride) ==
  IF R.selectedDataset = << >> \/ R.datasetRoot = << >>
    THEN [S EXCEPT !.error = Some(PickFirstMessage)]
  ELSE
    LET sqlToUse == IF IsSome(sqlOverride) THEN Get(sqlOverride) ELSE R.sql
        offsetToUse == IF IsSome(offsetOverride) THEN Get(offsetOverride) ELSE R.offset
        requestId == S.querySeq + 1
        controller == [kind |-> "query", id |-> requestId]
        S1 == Abort(S, S.queryAbortRef, "runQuery")
        S2 == [S1 EXCEPT !.querySeq = requestId,
                         !.queryAbortRef = Some(controller),
                         !.loading = TRUE,
                         !.error = None]
    IN  Issue(S2, Request("query", queryUrl(R.selectedDataset, R.datasetRoot),
                          Some([sql |-> sqlToUse, split |-> R.selectedSplit,
                                limit |-> Some(R.limit), offset |-> Some(offsetToUse)]),
                          Some(controller), requestId, R))

fetchCount(R, S) ==
  IF R.selectedDataset = << >> \/ R.datasetRoot = << >>
    THEN [S EXCEPT !.error = Some(PickFirstMessage)]
  ELSE
    LET requestId == S.countSeq + 1
        controller == [kind |-> "count", id |-> requestId]
        S1 == Abort(S, S.countAbortRef, "fetchCount")
        S2 == [S1 EXCEPT !.countSeq = requestId,
                         !.countAbortRef = Some(controller),
                         !.countLoading = TRUE,
                         !.error = None]
    IN  Issue(S2, Request("count",
                          countUrl(R.selectedDataset, R.datasetRoot, R.selectedSplit),
                          None, Some(controller), requestId, R))

(***************************************************************************)
(* App: the four effects, in the order the component declares them.        *)
(***************************************************************************)
\* useEffect(..., [datasetRoot])
RootEffect(R, S) ==
  LET S1 == Abort(S, S.queryAbortRef, "rootEffect")
      S2 == Abort([S1 EXCEPT !.queryAbortRef = None], S.countAbortRef, "rootEffect")
  IN  [S2 EXCEPT !.countAbortRef = None,
                 !.loading = FALSE,
                 !.countLoading = FALSE,
                 !.datasets = << >>,
                 !.selectedDataset = << >>,
                 !.splits = << >>,
                 !.selectedSplit = << >>,
                 !.schema = << >>,
                 !.result = None,
                 !.offset = 0,
                 !.totalCount = None,
                 !.autoRunPending = FALSE]

\* useEffect(..., [selectedDataset, datasetRoot])
DatasetEffect(R, S) ==
  IF R.selectedDataset = << >> \/ R.datasetRoot = << >> THEN S
  ELSE
    LET S1 == Abort(S, S.queryAbortRef, "datasetEffect")
        S2 == Abort(S1, S1.countAbortRef, "datasetEffect")
        S3 == [S2 EXCEPT !.error = None,
                         !.result = None,
                         !.offset = 0,
                         !.totalCount = None,
                         !.schema = << >>,
                         !.splits = << >>,
                         !.selectedSplit = << >>]
    IN  Issue(S3, Request("listSplits", listSplitsUrl(R.selectedDataset, R.datasetRoot),
                          None, None, 0, R))

\* useEffect(..., [selectedSplit, selectedDataset, datasetRoot])
SplitEffect(R, S) ==
  IF R.selectedDataset = << >> \/ R.selectedSplit = << >> \/ R.datasetRoot = << >> THEN S
  ELSE
    LET S1 == [S EXCEPT !.offset = 0, !.totalCount = None]
    IN  Issue(S1, Request("schema",
                          schemaUrl(R.selectedDataset, R.datasetRoot, R.selectedSplit),
                          None, None, 0, R))

\* an auto-run that also counts the rows of the split
AutoRunEffectCounting(R, S) ==
  IF /\ R.autoRunPending
     /\ R.selectedDataset # << >>
     /\ R.selectedSplit # << >>
     /\ R.datasetRoot # << >>
     /\ ~ R.loading
    THEN fetchCount(R, runQuery(R, [S EXCEPT !.sql = DEFAULT_SQL, !.autoRunPending = FALSE],
                                Some(DEFAULT_SQL), None))
    ELSE S

\* useEffect(..., [autoRunPending, selectedDataset, selectedSplit, datasetRoot, loading])
AutoRunEffect(R, S) ==
  IF /\ R.autoRunPending
     /\ R.selectedDataset # << >>
     /\ R.selectedSplit # << >>
     /\ R.datasetRoot # << >>
     /\ ~ R.loading
    THEN runQuery(R, [S EXCEPT !.sql = DEFAULT_SQL, !.autoRunPending = FALSE],
                  Some(DEFAULT_SQL), None)
    ELSE S

\* one render with state R after a render with state P: every effect whose
\* dependencies changed runs, reading the state of this render
Effects(P, R) ==
  LET rootDep == R.datasetRoot # P.datasetRoot
      datasetDep == rootDep \/ R.selectedDataset # P.selectedDataset
      splitDep == datasetDep \/ R.selectedSplit # P.selectedSplit
      autoDep == \/ splitDep
                 \/ R.autoRunPending # P.autoRunPending
                 \/ R.loading # P.loading
      S1 == IF rootDep THEN RootEffect(R, R) ELSE R
      S2 == IF datasetDep THEN DatasetEffect(R, S1) ELSE S1
      S3 == IF splitDep THEN SplitEffect(R, S2) ELSE S2
  IN  IF autoDep THEN AutoRunEffect(R, S3) ELSE S3

RECURSIVE Settle(_, _)
\* render until the effects change no state any more
Settle(P, R) ==
  IF Rendered(R) = Rendered(P) THEN R
  ELSE Settle(R, Effects(P, R))

(***************************************************************************)
(* App: the callbacks that run when a request settles.  `out` is what the  *)
(* promise of json<T> settled with.                                        *)
(***************************************************************************)
\* loadDatasets: .then / .catch
listDatasetsSettled(S, out) ==
  IF out.threw THEN [S EXCEPT !.error = Some(out.message)]
  ELSE LET first == IF out.value.datasets # << >> THEN out.value.datasets[1] ELSE << >>
       IN  [S EXCEPT !.datasets = out.value.datasets,
                     !.selectedDataset = first,
                     !.autoRunPending = first # << >>]

\* a catch that only reports the error and resets nothing
listSplitsSettledReportOnly(S, out) ==
  IF out.threw
    THEN [S EXCEPT !.error = Some(out.message)]
  ELSE LET next == IF out.value.splits # << >> THEN out.value.splits[1] ELSE << >>
       IN  [S EXCEPT !.splits = out.value.splits,
                     !.selectedSplit = next,
                     !.autoRunPending = next # << >>]

\* selectedDataset effect: .then / .catch
listSplitsSettled(S, out) ==
  IF out.threw
    THEN [S EXCEPT !.schema = << >>, !.splits = << >>, !.selectedSplit = << >>,
                   !.error = Some(out.message)]
  ELSE LET next == IF out.value.splits # << >> THEN out.value.splits[1] ELSE << >>
       IN  [S EXCEPT !.splits = out.value.splits,
                     !.selectedSplit = next,
                     !.autoRunPending = next # << >>]

\* selectedSplit effect: .then / .catch
schemaSettled(S, out) ==
  IF out.threw THEN [S EXCEPT !.error = Some(out.message)]
  ELSE LET S1 == [S EXCEPT !.schema = out.value.columns]
       IN  IF out.value.approx_rows # None
             THEN [S1 EXCEPT !.totalCount = out.value.approx_rows]
             ELSE S1

\* runQuery after its await without the check of controller.signal.aborted
querySettledAbortReported(S, q, out) ==
  LET current == q.requestId = S.querySeq
      S1 == IF ~ current THEN S
            ELSE IF out.threw
              THEN [S EXCEPT !.result = None, !.error = Some(out.message)]
            ELSE [S EXCEPT !.result = Some([columns |-> out.value.columns,
                                            data |-> out.value.data,
                                            row_count |-> out.value.row_count,
                                            truncated |-> out.value.truncated,
                                            req |-> q])]
  IN  IF current THEN [S1 EXCEPT !.loading = FALSE] ELSE S1

\* runQuery after its await without the requestId comparisons
querySettledAnyRequest(S, q, out) ==
  LET signalAborted == IsAborted(S, Get(q.signal))
      S1 == IF ~ out.threw
              THEN [S EXCEPT !.result = Some([columns |-> out.value.columns,
                                              data |-> out.value.data,
                                              row_count |-> out.value.row_count,
                                              truncated |-> out.value.truncated,
                                              req |-> q])]
            ELSE IF signalAborted THEN S
            ELSE [S EXCEPT !.result = None, !.error = Some(out.message)]
  IN  [S1 EXCEPT !.loading = FALSE]

\* runQuery after its await: try / catch / finally.  `req` remembers the
\* request the result answers.
querySettled(S, q, out) ==
  LET signalAborted == IsAborted(S, Get(q.signal))
      current == q.requestId = S.querySeq
      S1 == IF ~ out.threw
              THEN IF ~ current THEN S
                   ELSE [S EXCEPT !.result = Some([columns |-> out.value.columns,
                                                   data |-> out.value.data,
                                                   row_count |-> out.value.row_count,
                                                   truncated |-> out.value.truncated,
                                                   req |-> q])]
            ELSE IF signalAborted THEN S
            ELSE IF ~ current THEN S
            ELSE [S EXCEPT !.result = None, !.error = Some(out.message)]
  IN  IF current THEN [S1 EXCEPT !.loading = FALSE] ELSE S1

\* fetchCount after its await: try / catch / finally
countSettled(S, q, out) ==
  LET signalAborted == IsAborted(S, Get(q.signal))
      current == q.requestId = S.countSeq
      S1 == IF ~ out.threw
              THEN IF ~ current THEN S
                   ELSE [S EXCEPT !.totalCount = Some(out.value.rows)]
            ELSE IF signalAborted THEN S
            ELSE IF ~ current THEN S
            ELSE [S EXCEPT !.totalCount = None, !.error = Some(out.message)]
  IN  IF current THEN [S1 EXCEPT !.countLoading = FALSE] ELSE S1

\* the request leaves the network, and its controller with it
Remove(S, q) ==
  [S EXCEPT !.net = @ \ { q },
            !.aborted = { a \in @ : Some(a.ctrl) # q.signal }]

(***************************************************************************)
(* App: derived values of a render.                                        *)
(***************************************************************************)
hasNext ==
  IF result = None THEN FALSE
  ELSE IF totalCount # None THEN offset + Get(result).row_count < Get(totalCount)
  ELSE Get(result).truncated

\* SqlEditor: disabled={!selectedDataset || loading}
editorDisabled == selectedDataset = << >> \/ loading

(***************************************************************************)
(* What the user can type and choose.                                      *)
(***************************************************************************)
Roots == { << >>, BlankRoot, RootA }

OwnLimitSql == << "select", "*", "from", "t", "limit", "5" >>
BadSql == << "SELEC", "*" >>
BlankSql == << " ", "\n" >>
SqlTexts == { DEFAULT_SQL, BlankSql }

\* Number(e.target.value) of the limit input: a limit within the server's
\* bounds and one above them
LimitChoices == { 2, InitialLimit }

\* the user acts only while the model's bounds leave room
Room ==
  /\ Cardinality(net) < MaxInflight /\ querySeq < MaxSeq
  /\ UNCHANGED << served, seen, table, cols >>

(***************************************************************************)
(* User actions.                                                           *)
(***************************************************************************)
\* onChange of the dataset folder input
SetDatasetRoot ==
  /\ Room
  /\ \E r \in Roots \ { datasetRoot } :
       Commit(Settle(Cur, [Cur EXCEPT !.datasetRoot = r]))

\* String.trim() on a root: blank when only whitespace is left
Trimmed(root) == SelectSeq(root, LAMBDA c : c \notin Whitespace)

loadDatasets(R, S) ==
  IF Trimmed(R.datasetRoot) = << >>
    THEN [S EXCEPT !.error = Some(ChooseRootMessage)]
  ELSE Issue([S EXCEPT !.error = None],
             Request("listDatasets", listDatasetsUrl(R.datasetRoot), None, None, 0, R))

\* the Load datasets button
LoadDatasets ==
  /\ Room
  /\ Commit(Settle(Cur, loadDatasets(Cur, Cur)))

\* onDatasetChange
SelectDataset ==
  /\ Room
  /\ \E d \in Range(datasets) \ { selectedDataset } :
       Commit(Settle(Cur, [Cur EXCEPT !.selectedDataset = d]))

\* onSplitChange
SelectSplit ==
  /\ Room
  /\ \E sp \in Range(splits) \ { selectedSplit } :
       Commit(Settle(Cur, [Cur EXCEPT !.selectedSplit = sp]))

\* onChange of the SQL textarea
EditSql ==
  /\ Room
  /\ ~ editorDisabled
  /\ \E text \in SqlTexts \ { sql } :
       Commit(Settle(Cur, [Cur EXCEPT !.sql = text]))

handleLimitChange(S, value) == [S EXCEPT !.limit = value, !.offset = 0]

\* onChange of the limit input
ChangeLimit ==
  /\ Room
  /\ ~ editorDisabled
  /\ \E value \in LimitChoices \ { limit } :
       Commit(Settle(Cur, handleLimitChange(Cur, value)))

\* the Run Query button
RunQuery ==
  /\ Room
  /\ ~ editorDisabled
  /\ Commit(Settle(Cur, runQuery(Cur, Cur, None, None)))

\* the Count rows button
CountRows ==
  /\ Room
  /\ countSeq < MaxCounts
  /\ ~ (selectedDataset = << >> \/ countLoading \/ loading)
  /\ Commit(Settle(Cur, fetchCount(Cur, Cur)))

prevClick(R, S) ==
  LET nextOffset == Max(0, R.offset - R.limit)
  IN  runQuery(R, [S EXCEPT !.offset = nextOffset], None, Some(nextOffset))

\* the Prev button
Prev ==
  /\ Room
  /\ ~ (result = None \/ offset = 0 \/ loading)
  /\ Commit(Settle(Cur, prevClick(Cur, Cur)))

nextClick(R, S) ==
  LET nextOffset == R.offset + R.limit
  IN  runQuery(R, [S EXCEPT !.offset = nextOffset], None, Some(nextOffset))

\* the Next button
NextPage ==
  /\ Room
  /\ ~ (result = None \/ ~ hasNext \/ loading)
  /\ Commit(Settle(Cur, nextClick(Cur, Cur)))

(***************************************************************************)
(* Requests settle, in any order.                                          *)
(***************************************************************************)
\* of identical requests in flight the one issued last stands for all
Deliverable(q) ==
  /\ q \in net
  /\ \A p \in net : [p EXCEPT !.copy = 0] = [q EXCEPT !.copy = 0] => p.copy <= q.copy

\* what a request that was not aborted settles with: the server's answer
Outcomes(q) == { json(Serve(q)) }

ListDatasetsSettles ==
  \E q \in net : \E o \in Outcomes(q) :
    /\ Deliverable(q) /\ q.kind = "listDatasets"
    /\ Commit(Settle(Cur, listDatasetsSettled(Remove(Cur, q), o)))
    /\ UNCHANGED << served, seen, table, cols >>

ListSplitsSettles ==
  \E q \in net : \E o \in Outcomes(q) :
    /\ Deliverable(q) /\ q.kind = "listSplits"
    /\ Commit(Settle(Cur, listSplitsSettled(Remove(Cur, q), o)))
    /\ UNCHANGED << served, seen, table, cols >>

SchemaSettles ==
  \E q \in net : \E o \in Outcomes(q) :
    /\ Deliverable(q) /\ q.kind = "schema"
    /\ Commit(Settle(Cur, schemaSettled(Remove(Cur, q), o)))
    /\ UNCHANGED << served, seen, table, cols >>

QuerySettles ==
  \E q \in net : \E o \in Outcomes(q) :
    /\ q.kind = "query" /\ ~ IsAborted(Cur, Get(q.signal))
    /\ Commit(Settle(Cur, Remove(querySettled(Cur, q, o), q)))
    /\ UNCHANGED << served, seen, table, cols >>

CountSettles ==
  \E q \in net : \E o \in Outcomes(q) :
    /\ q.kind = "count" /\ ~ IsAborted(Cur, Get(q.signal))
    /\ Commit(Settle(Cur, Remove(countSettled(Cur, q, o), q)))
    /\ UNCHANGED << served, seen, table, cols >>

\* an aborted fetch rejects with an AbortError
AbortError == [threw |-> TRUE, value |-> << >>, message |-> << "The user aborted a request." >>]

QueryAborts ==
  \E q \in net :
    /\ q.kind = "query" /\ IsAborted(Cur, Get(q.signal))
    /\ Commit(Settle(Cur, Remove(querySettled(Cur, q, AbortError), q)))
    /\ UNCHANGED << served, seen, table, cols >>

CountAborts ==
  \E q \in net :
    /\ q.kind = "count" /\ IsAborted(Cur, Get(q.signal))
    /\ Commit(Settle(Cur, Remove(countSettled(Cur, q, AbortError), q)))
    /\ UNCHANGED << served, seen, table, cols >>

(***************************************************************************)
(* The virtualised result table.  The table is described by its props      *)
(* rowCount and data (by inferredRows, the length of the first visible     *)
(* column), by its state scrollTop and viewportHeight, and by resetPending:*)
(* the props changed and the effect that resets the scroll position has    *)
(* not run yet.                                                            *)
(***************************************************************************)
ROW_HEIGHT == 36
OVERSCAN == 8

\* Math.floor(a / b) and Math.ceil(a / b) for a positive b
Floor(a, b) == a \div b
Ceil(a, b) == - ((- a) \div b)

\* the table as it is mounted: no rows, the useState defaults
Mounted ==
  [rowCount |-> 0, inferredRows |-> 0, scrollTop |-> 0, viewportHeight |-> 360,
   resetPending |-> FALSE]

safeRowCount(t) == Min(t.rowCount, t.inferredRows)

\* a window that ends with the last row that is wholly above the bottom of
\* the viewport
rangeWholeRows(t) ==
  [start |-> Max(0, Floor(t.scrollTop, ROW_HEIGHT) - OVERSCAN),
   end   |-> Min(safeRowCount(t), Floor(t.scrollTop + t.viewportHeight, ROW_HEIGHT))]

range(t) ==
  [start |-> Max(0, Floor(t.scrollTop, ROW_HEIGHT) - OVERSCAN),
   end   |-> Min(safeRowCount(t),
                 Ceil(t.scrollTop + t.viewportHeight, ROW_HEIGHT) + OVERSCAN)]

topPad(t) == range(t).start * ROW_HEIGHT
bottomPad(t) == (safeRowCount(t) - range(t).end) * ROW_HEIGHT

\* the row indexes of the body rows the render emits
RenderedRows(t) == { range(t).start + i : i \in 0 .. (range(t).end - range(t).start - 1) }

\* whether the render emits the scrolling wrapper, or "No rows returned"
HasWrapper(t) == safeRowCount(t) # 0

(***************************************************************************)
(* The columns of the result table.  maxColumns is a JavaScript number: a  *)
(* whole number, a whole number and a half, or a value that is not finite. *)
(***************************************************************************)
DEFAULT_MAX_COLUMNS == 32

Whole(k) == [int |-> k, half |-> FALSE, finite |-> TRUE]
AndHalf(k) == [int |-> k, half |-> TRUE, finite |-> TRUE]

\* Number.isFinite(x) and Math.floor(x)
IsFinite(x) == x.finite
MathFloor(x) == x.int

\* Math.min(x, n) for a whole number n: not a number when x is not
MathMin(x, n) ==
  IF ~ x.finite THEN x
  ELSE IF x.int < n THEN x ELSE Whole(n)

\* s.slice(0, n)
Slice(s, n) ==
  IF n < 0 THEN SubSeq(s, 1, Max(0, Len(s) + n)) ELSE SubSeq(s, 1, Min(n, Len(s)))

\* the table as it is mounted: no columns, the useState default
MountedColumns ==
  [columns |-> << >>, data |-> << >>, maxColumns |-> Whole(DEFAULT_MAX_COLUMNS),
   capPending |-> FALSE]

\* a column limit that is not kept above zero
safeMaxColumnsUnclamped(c) ==
  IF Len(c.columns) = 0 THEN 0
  ELSE LET n == IF IsFinite(c.maxColumns) THEN MathFloor(c.maxColumns)
                ELSE DEFAULT_MAX_COLUMNS
       IN  Min(Len(c.columns), n)

safeMaxColumns(c) ==
  IF Len(c.columns) = 0 THEN 0
  ELSE LET n == IF IsFinite(c.maxColumns) THEN MathFloor(c.maxColumns)
                ELSE DEFAULT_MAX_COLUMNS
       IN  Max(1, Min(Len(c.columns), n))

visibleColumns(c) == Slice(c.columns, safeMaxColumns(c))
visibleData(c) == Slice(c.data, safeMaxColumns(c))

\* whether the render emits the toolbar, or "No rows returned"
HasToolbar(c) == visibleData(c) # << >> /\ visibleData(c)[1] # << >>

(***************************************************************************)
(* The specification of the front end against the backend.                 *)
(***************************************************************************)
Init ==
  /\ datasets = << >>
  /\ datasetRoot = << >>
  /\ selectedDataset = << >>
  /\ splits = << >>
  /\ selectedSplit = << >>
  /\ schemaCols = << >>
  /\ sql = DEFAULT_SQL
  /\ limit = InitialLimit
  /\ offset = 0
  /\ result = None
  /\ totalCount = None
  /\ loading = FALSE
  /\ countLoading = FALSE
  /\ error = None
  /\ autoRunPending = FALSE
  /\ queryAbortRef = None
  /\ countAbortRef = None
  /\ querySeq = 0
  /\ countSeq = 0
  /\ net = { }
  /\ aborted = { }
  /\ served = None
  /\ seen = None
  /\ table = Mounted
  /\ cols = MountedColumns

Next ==
  \/ SetDatasetRoot
  \/ LoadDatasets
  \/ SelectDataset
  \/ SelectSplit
  \/ EditSql
  \/ ChangeLimit
  \/ RunQuery
  \/ CountRows
  \/ Prev
  \/ NextPage
  \/ ListDatasetsSettles
  \/ ListSplitsSettles
  \/ SchemaSettles
  \/ QuerySettles
  \/ CountSettles
  \/ QueryAborts
  \/ CountAborts

Spec == Init /\ [][Next]_vars

(***************************************************************************)
(* The backend on its own: a client calls the request surface directly,    *)
(* with any parameters, and `served` keeps the request and its response.   *)
(***************************************************************************)
ApiRoots == { << >>, BlankRoot, RootA, RootB }
ApiDatasets == { << "x" >>, << "y", "?" >>, << "j" >>, << "b" >>, << "a", "&" >> }
ApiSplits == { << >>, << "s" >>, << "t" >>, << "d", "e", "f", "a", "u", "l", "t" >> }
ApiSqlTexts == { DEFAULT_SQL, OwnLimitSql, BadSql, BlankSql, << >> }
ApiLimits == { None } \cup { Some(n) : n \in (-1)..(MAX_LIMIT + 2) }
ApiOffsets == { None } \cup { Some(n) : n \in 0..8 }

ApiRequest(kind, url, body, root, dataset, split) ==
  [kind |-> kind, url |-> url, body |-> body, signal |-> None, requestId |-> 0,
   copy |-> 1, at |-> [root |-> root, dataset |-> dataset, split |-> split]]

Unserved ==
  UNCHANGED << datasets, datasetRoot, selectedDataset, splits, selectedSplit,
               schemaCols, sql, limit, offset, result, totalCount, loading,
               countLoading, error, autoRunPending, queryAbortRef, countAbortRef,
               querySeq, countSeq, net, aborted, table, cols >>

\* a backend whose engine keeps its cursor: a query resumes after the rows
\* of the response the client kept
CallResuming(req) ==
  LET from == IF seen # None /\ Get(seen).res.ok THEN Get(seen).res.body.row_count ELSE 0
      given == IF req.body[1].offset # None THEN Get(req.body[1].offset) ELSE 0
      resumed == [req EXCEPT !.body = Some([req.body[1] EXCEPT !.offset = Some(given + from)])]
  IN  /\ served' = Some([req |-> req,
                         res |-> IF req.kind = "query" THEN Serve(resumed) ELSE Serve(req)])
      /\ Unserved /\ UNCHANGED seen

\* the backend serves the request
Call(req) ==
  /\ served' = Some([req |-> req, res |-> Serve(req)])
  /\ Unserved /\ UNCHANGED seen

\* one request at a time: the client reads the response before it calls again
Read ==
  /\ served # None
  /\ served' = None
  /\ Unserved /\ UNCHANGED seen

CallListDatasets ==
  /\ served = None
  /\ \E root \in ApiRoots :
    Call(ApiRequest("listDatasets", listDatasetsUrl(root), None, root, << >>, << >>))

CallListSplits ==
  /\ served = None
  /\ \E root \in ApiRoots, d \in ApiDatasets :
    Call(ApiRequest("listSplits", listSplitsUrl(d, root), None, root, d, << >>))

CallSchema ==
  /\ served = None
  /\ \E root \in ApiRoots, d \in ApiDatasets, sp \in ApiSplits :
    Call(ApiRequest("schema", schemaUrl(d, root, sp), None, root, d, sp))

CallCount ==
  /\ served = None
  /\ \E root \in ApiRoots, d \in ApiDatasets, sp \in ApiSplits :
    Call(ApiRequest("count", countUrl(d, root, sp), None, root, d, sp))

CallQuery ==
  /\ served = None
  /\ \E root \in ApiRoots \ { << >> }, d \in ApiDatasets, sp \in ApiSplits,
     text \in ApiSqlTexts, lim \in ApiLimits, off \in ApiOffsets :
    Call(ApiRequest("query", queryUrl(d, root),
                    Some([sql |-> text, split |-> sp, limit |-> lim, offset |-> off]),
                    root, d, sp))

NextServer ==
  \/ CallListDatasets
  \/ CallListSplits
  \/ CallSchema
  \/ CallCount
  \/ CallQuery
  \/ Read

SpecServer == Init /\ [][NextServer]_vars

(***************************************************************************)
(* The backend under a client that repeats requests: the client may keep   *)
(* one query response and compare later responses with it.                 *)
(***************************************************************************)
\* the requests whose response the client keeps
Kept(req) ==
  /\ req.kind = "query"
  /\ req.at = [root |-> RootA, dataset |-> << "x" >>, split |-> << "s" >>]
  /\ req.body[1].sql \in { DEFAULT_SQL, OwnLimitSql }
  /\ req.body[1].limit \in { None, Some(MAX_LIMIT) }
  /\ req.body[1].offset \in { None, Some(2) }

Keep ==
  /\ served # None /\ seen = None
  /\ Kept(Get(served).req)
  /\ seen' = served
  /\ served' = None
  /\ Unserved

NextRepeat ==
  \/ CallQuery
  \/ CallCount
  \/ Keep
  \/ Read

SpecRepeat == Init /\ [][NextRepeat]_vars

(***************************************************************************)
(* The request helper json<T> against any backend: a response that is not  *)
(* ok, with any body, and the outcome the helper settles with.             *)
(***************************************************************************)
ErrorStatuses == { 400, 404, 422, 500 }

\* body texts that are not JSON
RawTexts ==
  { << >>, << " " >>, << "Internal Server Error" >>, << "<html>", "oops", "</html>" >>,
    << "{", "\"", "detail", "\"", ":" >>, << "\"", "boom" >> }

\* what the backend sends: a JSON value as its compact text, or a raw text
SentBodies ==
  { [isJson |-> TRUE, value |-> v, text |-> Stringify(v)] : v \in JsonValues }
    \cup { [isJson |-> FALSE, value |-> JScalar("null"), text |-> r] : r \in RawTexts }

Respond ==
  /\ served = None
  /\ \E st \in ErrorStatuses, b \in SentBodies :
       LET res == [ok |-> FALSE, status |-> st,
                   body |-> [text |-> b.text, statusText |-> StatusText(st)]]
       IN  served' = Some([sent |-> b, res |-> res, out |-> json(res)])
  /\ Unserved /\ UNCHANGED seen

NextHelper ==
  \/ Respond
  \/ Read

SpecHelper == Init /\ [][NextHelper]_vars

(***************************************************************************)
(* Claims about the backend, checked under SpecServer.                     *)
(***************************************************************************)
ServedQuery == served # None /\ Get(served).req.kind = "query"
ServedReq == Get(served).req
ServedRes == Get(served).res

\* the rows of the split a served request addresses, as they lie on disk:
\* the shards of the split in order, one after the other
RowsOnDisk(root, dataset, split) ==
  LET entry == CHOOSE e \in Range(Disk(root)) : e.name = dataset
      subs == IF entry.manifest = "valid" THEN entry.subdirs
              ELSE SelectSeq(entry.subdirs, LAMBDA d : d.manifest = "valid")
      loose == SelectSeq(entry.files, LAMBDA f : f.ext \in { "parquet", "arrow" })
      named == SelectSeq(subs, LAMBDA d : split = << >> \/ d.name = split)
  IN  IF subs # << >> THEN Flatten(named[1].shards)
      ELSE Flatten([ i \in 1..Len(loose) |-> loose[i].rows ])

\* the limit the claims call L, spelled out case by case
ExpectedLimit(lim) ==
  IF lim = None THEN DEFAULT_LIMIT
  ELSE IF Get(lim) < 1 THEN 1
  ELSE IF Get(lim) > MAX_LIMIT THEN MAX_LIMIT
  ELSE Get(lim)

C6_EffectiveLimitClamped ==
  ServedQuery =>
    LET lim == ServedReq.body[1].limit
        L == EffectiveLimit(lim)
    IN  /\ L = ExpectedLimit(lim)
        /\ 1 <= L /\ L <= MAX_LIMIT
        /\ 1 <= DEFAULT_LIMIT /\ DEFAULT_LIMIT <= MAX_LIMIT
        /\ ServedRes.ok => ServedRes.body.row_count <= ExpectedLimit(lim)
        /\ (ServedRes.ok /\ ~ HasLimitOrOffset(ServedReq.body[1].sql)) =>
             ServedRes.yielded <= ExpectedLimit(lim) + 1

C6_Witness ==
  /\ ServedQuery /\ ServedRes.ok
  /\ ServedReq.body[1].limit = Some(MAX_LIMIT + 2)
  /\ ServedRes.body.row_count = MAX_LIMIT
  /\ ServedRes.body.truncated

\* the page a query request gets when it is sent with offset off
PageAt(req, off) ==
  LET res == Serve([req EXCEPT !.body = Some([req.body[1] EXCEPT !.offset = Some(off)])])
  IN  res.body.data[1]

RECURSIVE Pages(_, _, _, _)
\* the pages at offsets from, from + L, ... up to the first empty page
Pages(req, L, from, fuel) ==
  IF fuel = 0 \/ PageAt(req, from) = << >> THEN << >>
  ELSE << PageAt(req, from) >> \o Pages(req, L, from + L, fuel - 1)

\* C7: for a static split, an SQL text without its own LIMIT / OFFSET and a
\* limit L in [1, MAX_LIMIT], the pages at offsets 0, L, 2L, ... are pairwise
\* disjoint and their concatenation is the row sequence of one unpaginated
\* fetch of all rows.
C7_PagesPartitionRows ==
  (/\ ServedQuery /\ ServedRes.ok
   /\ ServedReq.body[1].sql = DEFAULT_SQL
   /\ ServedReq.body[1].limit # None
   /\ Get(ServedReq.body[1].limit) \in 1..MAX_LIMIT) =>
    LET L == Get(ServedReq.body[1].limit)
        onDisk == RowsOnDisk(ServedReq.at.root, ServedReq.at.dataset, ServedReq.at.split)
        pages == Pages(ServedReq, L, 0, Len(onDisk) + 1)
    IN  /\ Flatten(pages) = onDisk
        /\ \A i, j \in 1..Len(pages) : i # j => Range(pages[i]) \cap Range(pages[j]) = { }
        /\ \A i \in 1..Len(pages) : Len(pages[i]) <= L
        /\ \A i \in 1..(Len(pages) - 1) : Len(pages[i]) = L

C7_Witness ==
  /\ ServedQuery /\ ServedRes.ok
  /\ ServedReq.body[1].sql = DEFAULT_SQL
  /\ ServedReq.body[1].limit = Some(2)
  /\ ServedReq.body[1].offset = Some(2)
  /\ Len(Pages(ServedReq, 2, 0, 8)) = 4
  /\ ServedRes.body.data[1] = Pages(ServedReq, 2, 0, 8)[2]

\* C9: a query on a split that binds whose SQL is empty or only whitespace is
\* rejected with EmptyQuery before any execution: nothing is executed, no row
\* is returned.
C9_EmptyQueryRejected ==
  (/\ ServedQuery
   /\ ServedReq.body[1].sql \in { << >>, BlankSql }
   /\ bind(ServedReq.at.root, ServedReq.at.dataset, ServedReq.at.split).ok) =>
    /\ ~ ServedRes.ok
    /\ ServedRes.status = 400
    /\ ServedRes.body.detail = << "EmptyQuery" >>
    /\ ServedRes.executed = None
    /\ ServedRes.yielded = 0

C9_Witness ==
  /\ ServedQuery
  /\ ServedReq.body[1].sql = BlankSql
  /\ ServedReq.at = [root |-> RootA, dataset |-> << "x" >>, split |-> << "s" >>]
  /\ ServedRes.body.detail = << "EmptyQuery" >>

\* what a directory is, read off the disk: a dataset, or an entry that fails
\* detection (a malformed manifest, or neither manifest nor columnar file)
Malformed(entry) ==
  \/ entry.manifest = "corrupt"
  \/ /\ entry.manifest = "absent"
     /\ \E i \in 1..Len(entry.subdirs) : entry.subdirs[i].manifest = "corrupt"
Unrelated(entry) ==
  /\ entry.manifest = "absent"
  /\ \A i \in 1..Len(entry.subdirs) : entry.subdirs[i].manifest = "absent"
  /\ \A i \in 1..Len(entry.files) : entry.files[i].ext \notin { "parquet", "arrow" }
ValidNames(root) ==
  { e.name : e \in { e \in Range(Disk(root)) : ~ Malformed(e) /\ ~ Unrelated(e) } }

\* C10: listDatasets on a valid root returns exactly the entries that pass
\* Format Detection; an entry that fails it is absent, does not make the call
\* fail, and does not keep the valid datasets of the root from being listed
\* or queried.
C10_CatalogSkipsFailingEntries ==
  (served # None /\ ServedReq.at.root \in DiskRoots) =>
    /\ ServedReq.kind = "listDatasets" =>
         /\ ServedRes.ok
         /\ Range(ServedRes.body.datasets) = ValidNames(ServedReq.at.root)
         /\ Len(ServedRes.body.datasets) = Cardinality(ValidNames(ServedReq.at.root))
    /\ (ServedReq.kind = "listSplits" /\ ServedReq.at.dataset \in ValidNames(ServedReq.at.root)) =>
         ServedRes.ok /\ ServedRes.body.splits # << >>
    /\ (/\ ServedReq.kind = "query"
        /\ ServedReq.at.dataset \in ValidNames(ServedReq.at.root)
        /\ ServedReq.at.split = << >>
        /\ ServedReq.body[1].sql = DEFAULT_SQL) =>
         ServedRes.ok

C10_Witness ==
  /\ served # None
  /\ ServedReq.kind = "listDatasets"
  /\ ServedReq.at.root = RootA
  /\ \E e \in Range(Disk(RootA)) : Malformed(e)
  /\ \E e \in Range(Disk(RootA)) : Unrelated(e)
  /\ ServedRes.body.datasets = << << "x" >>, << "y", "?" >> >>

(***************************************************************************)
(* Claims about the front end, checked under Spec.                         *)
(***************************************************************************)
Issued == net' \ net
Settled == net \ net'
Live(q) == q \in net /\ ~ IsAborted(Cur, Get(q.signal))

\* C1: a /count request is issued only by a press of the Count rows button:
\* every step that puts a count request in flight is a step of CountRows, and
\* it starts no query and changes neither selection, SQL, limit nor offset.
C1_CountOnlyOnButton ==
  [][(\E q \in Issued : q.kind = "count") =>
       /\ CountRows
       /\ ~ (selectedDataset = << >> \/ countLoading \/ loading)
       /\ \A q \in Issued : q.kind = "count"
       /\ querySeq' = querySeq
       /\ << datasetRoot', selectedDataset', selectedSplit', sql', limit', offset' >>
            = << datasetRoot, selectedDataset, selectedSplit, sql, limit, offset >>]_vars

C1_Witness ==
  /\ \E q \in net : q.kind = "count" /\ q.requestId = countSeq
  /\ countLoading
  /\ result # None

\* C2: count and query are cancelled independently.  runQuery aborts nothing
\* but a query controller and fetchCount nothing but a count controller; a
\* step advances at most one of the two sequence counters; and a step that
\* starts a query (count) for the same root and dataset leaves every count
\* (query) in flight un-aborted.
C2_IndependentCancellation ==
  [][/\ \A a \in aborted' \ aborted :
          /\ a.by = "runQuery" => a.ctrl.kind = "query" /\ Some(a.ctrl) = queryAbortRef
          /\ a.by = "fetchCount" => a.ctrl.kind = "count" /\ Some(a.ctrl) = countAbortRef
     /\ ~ (querySeq' # querySeq /\ countSeq' # countSeq)
     /\ (/\ querySeq' # querySeq
         /\ datasetRoot' = datasetRoot /\ selectedDataset' = selectedDataset) =>
          /\ countSeq' = countSeq /\ countAbortRef' = countAbortRef
          /\ \A q \in net : (q.kind = "count" /\ Live(q)) =>
               q \in net' /\ ~ (\E a \in aborted' : Some(a.ctrl) = q.signal)
     /\ (/\ countSeq' # countSeq
         /\ datasetRoot' = datasetRoot /\ selectedDataset' = selectedDataset) =>
          /\ querySeq' = querySeq /\ queryAbortRef' = queryAbortRef
          /\ \A q \in net : (q.kind = "query" /\ Live(q)) =>
               q \in net' /\ ~ (\E a \in aborted' : Some(a.ctrl) = q.signal)]_vars

C2_Witness ==
  /\ \E q \in net : q.kind = "count" /\ Live(q) /\ q.requestId = countSeq
  /\ \E q \in net : q.kind = "query" /\ Live(q) /\ q.requestId = querySeq
  /\ loading /\ countLoading

\* C3: a request that ends because its controller was aborted is not reported:
\* the step in which it ends sets no error message (the message stays, or is
\* cleared by a query that starts in the same step) and changes neither the
\* result nor the total count.
C3_AbortNotReported ==
  [][\A q \in Settled :
       (q.kind \in { "query", "count" } /\ ~ Live(q)) =>
         /\ error' \in { error, None }
         /\ result' = result
         /\ totalCount' = totalCount]_vars

C3_Witness ==
  /\ \E q \in net : q.kind = "query" /\ ~ Live(q) /\ q.requestId = querySeq
  /\ totalCount # None
  /\ loading

\* the character that precedes the root parameter of a URL, and whether the
\* URL has a query string before it
RootAt(url) == CHOOSE i \in 2..Len(url) : url[i] = "root=" /\ url[i - 1] \in { "?", "&" }
HasRoot(url) == \E i \in 2..Len(url) : url[i] = "root=" /\ url[i - 1] \in { "?", "&" }

\* C4: every request the UI issues carries the root parameter, equal to the
\* root entered, after "?" when the path has no query string and after "&"
\* otherwise; no request is issued while the root is blank, nor, for splits,
\* schema, count and query, while no dataset is selected.
C4_RootOnEveryRequest ==
  [][\A q \in Issued :
       /\ HasRoot(q.url)
       /\ QueryParam(q.url, "root=") = Some(datasetRoot')
       /\ q.url[RootAt(q.url) - 1] =
            (IF Includes(SubSeq(q.url, 1, RootAt(q.url) - 2), "?") THEN "&" ELSE "?")
       /\ Trimmed(datasetRoot') # << >>
       /\ q.kind # "listDatasets" =>
            /\ q.at.dataset # << >>
            /\ Route(q.url).dataset = q.at.dataset]_vars

\* the same page size, SQL text and selection as the request the result on
\* screen answers, and the offset that request was sent with
SamePaging ==
  /\ result # None
  /\ Get(result).req.at = [root |-> datasetRoot, dataset |-> selectedDataset,
                           split |-> selectedSplit]
  /\ Get(result).req.body[1] = [sql |-> sql, split |-> selectedSplit,
                                limit |-> Some(limit), offset |-> Some(offset)]

\* C8: a press of Next on a page that was fetched with the limit, SQL text
\* and offset on screen sends a query whose offset is the previous request's
\* offset plus the number of rows that page returned.
C8_NextContinuesAfterLastRow ==
  [][(SamePaging /\ NextPage) =>
       \A q \in Issued :
         q.kind = "query" =>
           q.body[1].offset = Some(offset + Get(result).row_count)]_vars

(***************************************************************************)
(* Further claims about the backend.                                       *)
(***************************************************************************)
\* the directory of a served request is a loose-columnar dataset: no
\* manifest in it or below it, and at least one .parquet or .arrow file
LooseOnDisk(root, dataset) ==
  /\ root \in DiskRoots
  /\ \E e \in Range(Disk(root)) :
       /\ e.name = dataset
       /\ e.manifest = "absent"
       /\ \A i \in 1..Len(e.subdirs) : e.subdirs[i].manifest = "absent"
       /\ \E i \in 1..Len(e.files) : e.files[i].ext \in { "parquet", "arrow" }

RECURSIVE SumRows(_)
\* the sum of the row counts of the qualifying files among files
SumRows(files) ==
  IF files = << >> THEN 0
  ELSE (IF Head(files).ext \in { "parquet", "arrow" } THEN Len(Head(files).rows) ELSE 0)
         + SumRows(Tail(files))

DefaultSplit == << "d", "e", "f", "a", "u", "l", "t" >>

\* C11: for a loose-columnar dataset listSplits returns exactly the one split
\* name default, and the relation bound for that split has as many rows as
\* all qualifying files of the directory together (as count reports, and as
\* an unlimited-enough query returns).
C11_LooseColumnarDefaultSplit ==
  (served # None /\ LooseOnDisk(ServedReq.at.root, ServedReq.at.dataset)) =>
    LET entry == CHOOSE e \in Range(Disk(ServedReq.at.root)) : e.name = ServedReq.at.dataset
        total == SumRows(entry.files)
    IN  /\ ServedReq.kind = "listSplits" =>
             ServedRes.ok /\ ServedRes.body.splits = << DefaultSplit >>
        /\ (ServedReq.kind = "count" /\ ServedReq.at.split \in { << >>, DefaultSplit }) =>
             ServedRes.ok /\ ServedRes.body.rows = total
        /\ (ServedReq.kind = "count" /\ ServedReq.at.split \notin { << >>, DefaultSplit }) =>
             ~ ServedRes.ok
        /\ (/\ ServedReq.kind = "query"
            /\ ServedReq.at.split = DefaultSplit
            /\ ServedReq.body[1].sql = DEFAULT_SQL
            /\ ServedReq.body[1].offset = None
            /\ ServedReq.body[1].limit # None
            /\ Get(ServedReq.body[1].limit) \in total..MAX_LIMIT) =>
             /\ ServedRes.ok
             /\ ServedRes.body.row_count = total
             /\ ~ ServedRes.body.truncated

C11_Witness ==
  /\ served # None
  /\ ServedReq.kind = "count"
  /\ ServedReq.at = [root |-> RootA, dataset |-> << "y", "?" >>, split |-> DefaultSplit]
  /\ ServedRes.ok
  /\ ServedRes.body.rows = 3

TypedLimits == { -2, 2 }

\* onChange of the limit input with a typed number
TypeLimit ==
  /\ Room
  /\ ~ editorDisabled
  /\ \E value \in TypedLimits \ { limit } :
       Commit(Settle(Cur, handleLimitChange(Cur, value)))

NextPaging ==
  \/ SetDatasetRoot
  \/ LoadDatasets
  \/ TypeLimit
  \/ RunQuery
  \/ Prev
  \/ NextPage
  \/ ListDatasetsSettles
  \/ ListSplitsSettles
  \/ SchemaSettles
  \/ QuerySettles
  \/ QueryAborts

SpecPaging == Init /\ [][NextPaging]_vars

(***************************************************************************)
(* Retyping the root and reloading while answers are outstanding: the user *)
(* acts with up to MaxPending requests in flight.                          *)
(***************************************************************************)
MaxPending == 3

RoomPending ==
  /\ Cardinality(net) < MaxPending /\ querySeq < MaxSeq
  /\ UNCHANGED << served, seen, table, cols >>

\* onChange of the root input
RetypeRoot ==
  /\ RoomPending
  /\ \E r \in Roots \ { datasetRoot } :
       Commit(Settle(Cur, [Cur EXCEPT !.datasetRoot = r]))

\* the Load datasets button
Reload ==
  /\ RoomPending
  /\ Commit(Settle(Cur, loadDatasets(Cur, Cur)))

NextPending ==
  \/ RetypeRoot
  \/ Reload
  \/ ListDatasetsSettles
  \/ ListSplitsSettles
  \/ SchemaSettles
  \/ QuerySettles
  \/ QueryAborts

SpecPending == Init /\ [][NextPending]_vars

(***************************************************************************)
(* A network that can drop the splits request: fetch() rejects with a      *)
(* TypeError, which the helper lets through to the caller's catch.         *)
(***************************************************************************)
FetchFailed == [threw |-> TRUE, value |-> << >>, message |-> << "Failed to fetch" >>]

ListSplitsFails ==
  \E q \in net :
    /\ Deliverable(q) /\ q.kind = "listSplits"
    /\ Commit(Settle(Cur, listSplitsSettled(Remove(Cur, q), FetchFailed)))
    /\ UNCHANGED << served, seen, table, cols >>

NextFlaky ==
  \/ SetDatasetRoot
  \/ LoadDatasets
  \/ SelectDataset
  \/ RunQuery
  \/ ListDatasetsSettles
  \/ ListSplitsSettles
  \/ ListSplitsFails
  \/ SchemaSettles
  \/ QuerySettles
  \/ QueryAborts

SpecFlaky == Init /\ [][NextFlaky]_vars

(***************************************************************************)
(* The result table on its own: the parent hands it results of different   *)
(* sizes, the user scrolls, the wrapper is resized.                        *)
(***************************************************************************)
MaxRows == 20

RowCounts == { 0, 2, MaxRows }
ViewportHeights == { 0, 2 * ROW_HEIGHT, 360 }

Untabled ==
  UNCHANGED << datasets, datasetRoot, selectedDataset, splits, selectedSplit,
               schemaCols, sql, limit, offset, result, totalCount, loading,
               countLoading, error, autoRunPending, queryAbortRef, countAbortRef,
               querySeq, countSeq, net, aborted, served, seen, cols >>

\* the largest scroll position the wrapper allows: the body rows and a
\* header of at most one row height, less the wrapper's own height
MaxScrollTop(t) == Max(0, (safeRowCount(t) + 1) * ROW_HEIGHT - t.viewportHeight)

\* the parent renders the table with another result
ShowResult ==
  /\ ~ table.resetPending
  /\ \E n \in RowCounts, len \in RowCounts :
       /\ << n, len >> # << table.rowCount, table.inferredRows >>
       /\ table' = [table EXCEPT !.rowCount = n, !.inferredRows = len,
                                 !.resetPending = TRUE]
  /\ Untabled

\* the effect on [columns, rowCount]
ResetScroll ==
  /\ table.resetPending
  /\ table' = [table EXCEPT !.scrollTop = IF HasWrapper(table) THEN 0 ELSE @,
                            !.resetPending = FALSE]
  /\ Untabled

\* handleScroll and its animation frame
Scroll ==
  /\ ~ table.resetPending /\ HasWrapper(table)
  /\ \E top \in 0 .. MaxScrollTop(table) :
       /\ top # table.scrollTop
       /\ table' = [table EXCEPT !.scrollTop = top]
  /\ Untabled

\* the ResizeObserver callback
Resize ==
  /\ ~ table.resetPending /\ HasWrapper(table)
  /\ \E h \in ViewportHeights \ { table.viewportHeight } :
       table' = [table EXCEPT !.viewportHeight = h]
  /\ Untabled

NextTable ==
  \/ ShowResult
  \/ ResetScroll
  \/ Scroll
  \/ Resize

SpecTable == Init /\ [][NextTable]_vars

(***************************************************************************)
(* The columns of the result table on their own: the parent hands the      *)
(* table results of different widths, the user types a column limit or     *)
(* asks for all columns.                                                   *)
(***************************************************************************)
MaxWidth == 34

ColumnCounts == { 0, 1, 2, 3, MaxWidth - 1, MaxWidth }
RowsShown == { 0, 1 }

\* the numbers the user types into the Max columns input
TypedColumns ==
  { Whole(k) : k \in (-1 .. 4) \cup { DEFAULT_MAX_COLUMNS, MaxWidth, MaxWidth + 1 } }
    \cup { AndHalf(1), AndHalf(2) }

\* a result of n columns and r rows: the columns are named by their
\* position, and the value of a cell tells its column and its row
ColumnNames(n) == [i \in 1 .. n |-> i]
ColumnData(n, r) == [i \in 1 .. n |-> [j \in 1 .. r |-> << i, j >>]]

Uncolumned ==
  UNCHANGED << datasets, datasetRoot, selectedDataset, splits, selectedSplit,
               schemaCols, sql, limit, offset, result, totalCount, loading,
               countLoading, error, autoRunPending, queryAbortRef, countAbortRef,
               querySeq, countSeq, net, aborted, served, seen, table >>

\* the parent renders the table with another result
ShowColumns ==
  /\ ~ cols.capPending
  /\ \E n \in ColumnCounts, r \in RowsShown :
       /\ ColumnData(n, r) # cols.data
       /\ cols' = [cols EXCEPT !.columns = ColumnNames(n), !.data = ColumnData(n, r),
                               !.capPending = (n # Len(cols.columns))]
  /\ Uncolumned

\* the effect on [columns.length]
CapColumns ==
  /\ cols.capPending
  /\ cols' = [cols EXCEPT
                !.maxColumns = IF Len(cols.columns) = 0 THEN @
                               ELSE MathMin(@, Len(cols.columns)),
                !.capPending = FALSE]
  /\ Uncolumned

\* onChange of the Max columns input
TypeMaxColumns ==
  /\ ~ cols.capPending /\ HasToolbar(cols)
  /\ \E v \in TypedColumns \ { cols.maxColumns } :
       cols' = [cols EXCEPT !.maxColumns = v]
  /\ Uncolumned

\* onClick of the All button
ShowAll ==
  /\ ~ cols.capPending /\ HasToolbar(cols)
  /\ safeMaxColumns(cols) < Len(cols.columns)
  /\ cols' = [cols EXCEPT !.maxColumns = Whole(Len(cols.columns))]
  /\ Uncolumned

NextColumns ==
  \/ ShowColumns
  \/ CapColumns
  \/ TypeMaxColumns
  \/ ShowAll

SpecColumns == Init /\ [][NextColumns]_vars

(***************************************************************************)
(* Claims about the request helper, checked under SpecHelper.              *)
(***************************************************************************)
\* C16: for a response that is not ok the helper throws an Error with one
\* message: the detail string of a JSON object body; the JSON text of a
\* detail that is no string; the string of a JSON string body; otherwise
\* the raw body text, or the status text when the body is empty.  A body
\* that is not JSON yields the raw text, never a parse error.
C16_OneErrorMessage ==
  served # None =>
    LET b == Get(served).sent
        out == Get(served).out
        members == b.value.items
        withDetail == /\ b.isJson /\ b.value.t = "object"
                      /\ \E i \in 1..Len(members) : members[i].k = "detail"
        detail == members[CHOOSE i \in 1..Len(members) : members[i].k = "detail"].v
    IN  /\ out.threw
        /\ out.message \in Seq(STRING)
        /\ (withDetail /\ detail.t = "string") => out.message = detail.s
        /\ (withDetail /\ detail.t # "string") => out.message = Stringify(detail)
        /\ (b.isJson /\ b.value.t = "string") => out.message = b.value.s
        /\ (b.isJson /\ ~ withDetail /\ b.value.t # "string") => out.message = b.text
        /\ (~ b.isJson /\ b.text # << >>) => out.message = b.text
        /\ (~ b.isJson /\ b.text = << >>) =>
             out.message = << StatusText(Get(served).res.status) >>

C16_Witness ==
  /\ served # None
  /\ Get(served).sent.isJson
  /\ Get(served).sent.text = << "{", "\"", "detail", "\"", ":", "[", "\"", "boom", "\"", "]", "}" >>
  /\ Get(served).out.threw
  /\ Get(served).out.message = << "[", "\"", "boom", "\"", "]" >>

(***************************************************************************)
(* Further claims about the UI, checked under Spec.                        *)
(***************************************************************************)
\* C13: the approximate row count of schema is never presented or used as
\* the exact total: every value the total on screen takes (the "Total:"
\* label, the "of N" span and hasNext read it) was stored by the step in
\* which a count request settled.
C13_TotalOnlyFromCount ==
  [][(totalCount' # totalCount /\ totalCount' # None) =>
       \E q \in Settled : q.kind = "count"]_vars

\* a request that settles in this step with an error of the server, not with
\* the rejection of an abort
FailedNow(q) ==
  /\ q \in Settled
  /\ json(Serve(q)).threw
  /\ ~ (q.signal # None /\ IsAborted(Cur, Get(q.signal)))

\* C14: nothing is retried automatically: the step in which a request
\* settles with a failure issues no request; requests are issued by user
\* actions and by the steps in which a request succeeds.
C14_NoRequestAfterFailure ==
  [][(\E q \in Settled : FailedNow(q)) => Issued = {}]_vars

\* the latest query request settles in this step with an error of the server
LatestQueryFails(q) == q.kind = "query" /\ FailedNow(q) /\ q.requestId = querySeq

\* C15: a failed query is recoverable: when the latest query request fails,
\* the result is cleared, the message of the error is shown and loading is
\* false, so that Run Query is enabled while a dataset is selected; and
\* loading is false whenever no query request is in flight.
C15_FailedQueryRecoverable ==
  [][/\ \A q \in Settled :
          LatestQueryFails(q) =>
            /\ result' = None
            /\ error' = Some(json(Serve(q)).message)
            /\ ~ loading'
            /\ selectedDataset' # << >> => ~ editorDisabled'
     /\ (\A q \in net' : q.kind # "query") => ~ loading']_vars

\* a query or count request, and one that was issued for another root or
\* dataset than the one now chosen
Cancellable(q) == q.kind \in { "query", "count" }
Stale(q) == Cancellable(q) /\ (q.at.root # datasetRoot \/ q.at.dataset # selectedDataset)

OwnFirstSplit(q) ==
  LET answer == listSplits(q.at.root, q.at.dataset)
  IN  /\ answer.ok
      /\ answer.body.splits # << >>
      /\ q.at.split = answer.body.splits[1]

\* C18: a query that no press of Run Query, Prev or Next issued is the
\* default query of the auto-run: it carries DEFAULT_SQL and goes to the
\* dataset selected in that step and to that dataset's own first split.
C18_AutoRunOwnFirstSplit ==
  [][\A q \in Issued :
       (q.kind = "query" /\ ~ (RunQuery \/ Prev \/ NextPage)) =>
         /\ q.body[1].sql = DEFAULT_SQL
         /\ q.at.root = datasetRoot'
         /\ q.at.dataset = selectedDataset'
         /\ OwnFirstSplit(q)]_vars

\* the root, the selected dataset, the selected split or the limit changes
SelectionChanges ==
  << datasetRoot', selectedDataset', selectedSplit', limit' >>
    # << datasetRoot, selectedDataset, selectedSplit, limit >>

\* C19: the offset is 0 after every step that changes the root, the selected
\* dataset, the selected split or the limit, and a query issued in such a
\* step carries offset 0.
C19_OffsetResetOnChange ==
  [][SelectionChanges =>
       /\ offset' = 0
       /\ \A q \in Issued : q.kind = "query" => q.body[1].offset = Some(0)]_vars

(***************************************************************************)
(* Claims about paging, checked under SpecPaging.                          *)
(***************************************************************************)
\* C20: through any presses of Prev and Next the offset is never negative;
\* Prev from offset o with limit l requests max(0, o - l); Prev is not
\* pressed at offset 0, and neither button is pressed while no result is
\* shown or a query is loading.
C20_OffsetNeverNegative ==
  [][/\ offset' >= 0
     /\ Prev => /\ offset # 0
                /\ offset' = Max(0, offset - limit)
                /\ \A q \in Issued : q.kind = "query" =>
                     q.body[1].offset = Some(Max(0, offset - limit))
     /\ (Prev \/ NextPage) => (result # None /\ ~ loading)]_vars

(***************************************************************************)
(* Claims about what is on screen, checked under Spec.                     *)
(***************************************************************************)
\* the rows of the query the result on screen answers: SELECT * FROM t over
\* the split its request bound
ResultRows ==
  LET at == Get(result).req.at
  IN  bind(at.root, at.dataset, at.split).body.rows

\* C21: whenever Next is enabled, the query of the result on screen has a row
\* at position offset + row_count or later.
C21_NextOnlyWithMoreRows ==
  (result # None /\ hasNext /\ ~ loading) =>
    offset + Get(result).row_count < Len(ResultRows)

(***************************************************************************)
(* Claims about a failed split listing, checked under SpecFlaky.           *)
(***************************************************************************)
\* the splits request of the dataset now selected under the root now entered
ForSelection(q) ==
  /\ q.kind = "listSplits"
  /\ q.at.root = datasetRoot /\ q.at.dataset = selectedDataset

\* a step in which the splits request q of the selection fails
SplitsFail(q) ==
  /\ q \in Settled
  /\ ForSelection(q)
  /\ ListSplitsFails \/ json(Serve(q)).threw

LiveQueriesNext ==
  { q \in net' : q.kind = "query" /\ ~ (\E a \in aborted' : Some(a.ctrl) = q.signal) }

\* C23: only the query request issued last can affect the UI: the step in
\* which an earlier query request settles changes neither result, error nor
\* loading; a step that issues a query leaves every query that stays in
\* flight aborted; and at most one query request in flight is not aborted.
C23_OnlyLatestQueryCounts ==
  [][/\ \A q \in Settled :
          (q.kind = "query" /\ q.requestId # querySeq) =>
            /\ result' = result
            /\ error' = error
            /\ loading' = loading
     /\ (\E p \in Issued : p.kind = "query") =>
          \A q \in net \cap net' :
            q.kind = "query" => \E a \in aborted' : Some(a.ctrl) = q.signal
     /\ Cardinality(LiveQueriesNext) <= 1]_vars

C23_Witness ==
  /\ \E q \in net : q.kind = "query" /\ q.requestId < querySeq /\ ~ Live(q)
  /\ \E p \in net : p.kind = "query" /\ p.requestId = querySeq /\ Live(p)
  /\ loading

\* C24: whenever a result is on screen and no query is loading, the offset
\* that renders the row span is the offset sent in the request the result
\* answers.
C24_SpanOffsetIsRequestOffset ==
  (result # None /\ ~ loading) => Get(result).req.body[1].offset = Some(offset)

\* C25: whenever a result is on screen, its request was sent for the root
\* now entered, the dataset now selected and the split now selected.  A
\* request sent while no split was selected names none and is not judged.
C25_ResultOfCurrentSelection ==
  (result # None /\ Get(result).req.at.split # << >>) =>
    Get(result).req.at = [root |-> datasetRoot, dataset |-> selectedDataset,
                          split |-> selectedSplit]

(***************************************************************************)
(* Claims about late answers, checked under Spec.                          *)
(***************************************************************************)
\* no request of this kind is in flight
Delivered(kind) == \A q \in net : q.kind # kind

\* C26: once every splits answer is delivered, the splits list is the one
\* listSplits returns for the dataset now selected, and the selected split is
\* one of them; when that listing fails both are empty.
C26_SplitsOfSelectedDataset ==
  (Delivered("listSplits") /\ selectedDataset # << >> /\ datasetRoot # << >>) =>
    LET answer == listSplits(datasetRoot, selectedDataset)
    IN  IF answer.ok
          THEN splits = answer.body.splits /\ selectedSplit \in Range(splits)
          ELSE splits = << >> /\ selectedSplit = << >>

\* what the root effect leaves: nothing listed, selected or shown
Cleared ==
  /\ datasets = << >> /\ selectedDataset = << >>
  /\ splits = << >> /\ selectedSplit = << >>
  /\ schemaCols = << >> /\ result = None /\ totalCount = None
  /\ offset = 0 /\ ~ loading /\ ~ countLoading

\* C27: a step that changes the root leaves nothing listed, selected or
\* shown, offset 0 and both loading flags false; and that state is left only
\* by the step in which a datasets request sent for the root now entered
\* settles.
C27_RootChangeClears ==
  [][/\ datasetRoot' # datasetRoot => Cleared'
     /\ (Cleared /\ ~ Cleared' /\ datasetRoot' = datasetRoot) =>
          \E q \in Settled : q.kind = "listDatasets" /\ q.at.root = datasetRoot]_vars

\* C28: once every schema and count answer is delivered, the total on
\* screen was obtained for the dataset and split now selected: it is the
\* approximate or the exact row count of that split.
C28_TotalOfSelectedSplit ==
  LET relation == bind(datasetRoot, selectedDataset, selectedSplit)
  IN  (/\ Delivered("schema") /\ Delivered("count")
       /\ selectedDataset # << >> /\ selectedSplit # << >>
       /\ relation.ok /\ totalCount # None) =>
        totalCount \in { relation.body.approx, Some(Len(relation.body.rows)) }

(***************************************************************************)
(* Claims about the result table, checked under SpecTable.                 *)
(***************************************************************************)
\* C29: whenever the table renders its rows, the window satisfies
\* 0 <= start <= end <= safeRowCount, no row index outside the data is
\* rendered, and the two pads and the rendered rows add up to the height of
\* all rows.
C29_WindowWithinData ==
  HasWrapper(table) =>
    /\ 0 <= range(table).start
    /\ range(table).start <= range(table).end
    /\ range(table).end <= safeRowCount(table)
    /\ RenderedRows(table) \subseteq 0 .. (safeRowCount(table) - 1)
    /\ topPad(table) + (range(table).end - range(table).start) * ROW_HEIGHT
         + bottomPad(table) = safeRowCount(table) * ROW_HEIGHT

\* the rows of the data that intersect the viewport
InViewport(t) ==
  { r \in 0 .. (safeRowCount(t) - 1) :
      /\ r * ROW_HEIGHT < t.scrollTop + t.viewportHeight
      /\ (r + 1) * ROW_HEIGHT > t.scrollTop }

\* C30: every row of the data that intersects the viewport is in the
\* rendered window, and the window reaches at most OVERSCAN rows before the
\* first and after the last row of the viewport.
C30_ViewportRowsRendered ==
  HasWrapper(table) =>
    /\ InViewport(table) \subseteq RenderedRows(table)
    /\ \A r \in RenderedRows(table) :
         /\ r >= Floor(table.scrollTop, ROW_HEIGHT) - OVERSCAN
         /\ r < Ceil(table.scrollTop + table.viewportHeight, ROW_HEIGHT) + OVERSCAN

C30_Witness ==
  /\ HasWrapper(table)
  /\ InViewport(table) # { }
  /\ range(table).start > 0
  /\ range(table).end < safeRowCount(table)
  /\ \E r \in RenderedRows(table) : r \notin InViewport(table)

(***************************************************************************)
(* Claims about the columns of the result table, checked under SpecColumns.*)
(***************************************************************************)
\* x kept within lo .. hi
Clamped(x, lo, hi) == IF x < lo THEN lo ELSE IF x > hi THEN hi ELSE x

ColumnsShown(c) ==
  LET n == Len(c.columns)
      shown == Len(visibleColumns(c))
  IN  /\ n = 0 => shown = 0
      /\ n > 0 =>
           /\ shown \in 1 .. n
           /\ shown = Clamped(IF c.maxColumns.finite THEN c.maxColumns.int
                              ELSE DEFAULT_MAX_COLUMNS, 1, n)
      /\ Len(visibleData(c)) = shown
      /\ \A i \in 1 .. shown :
           /\ visibleColumns(c)[i] = c.columns[i]
           /\ visibleData(c)[i] = c.data[i]

\* a step of the user: the props stay and no effect is pending
ByUser == ~ cols.capPending /\ cols'.columns = cols.columns /\ cols'.data = cols.data

\* C31: the table shows no column when the result has none and otherwise
\* between 1 and columns.length columns, namely floor(maxColumns) kept in
\* that interval; the names and the data shown are the prefix of that length
\* of the result; and a step that is not the user's leaves maxColumns alone
\* or lowers it to columns.length.
C31_ColumnsShownAndCapped ==
  [][/\ ColumnsShown(cols) /\ ColumnsShown(cols')
     /\ ~ ByUser =>
          \/ cols'.maxColumns = cols.maxColumns
          \/ /\ cols'.maxColumns = Whole(Len(cols.columns))
             /\ \/ cols.maxColumns.int > Len(cols.columns)
                \/ cols.maxColumns.int = Len(cols.columns) /\ cols.maxColumns.half]_vars

C31_Witness ==
  /\ ~ cols.capPending
  /\ Len(cols.columns) > DEFAULT_MAX_COLUMNS
  /\ cols.maxColumns.int < 1
  /\ Len(visibleColumns(cols)) = 1
  /\ HasToolbar(cols)

====
